---- MODULE Spec2Model ----
(***************************************************************************)
(* Chunked CSV scans of app.py: search_csv (filter scan) and               *)
(* aggregate_caen (grouped aggregation).                                   *)
(*                                                                         *)
(* Strings are sequences of one-character strings, so that strip(),        *)
(* lower(), substring tests and number parsing/printing are computed       *)
(* rather than assumed.  Floating point values of the value column are     *)
(* integers in this model (every cell text of the model denotes an         *)
(* integer, which a float represents exactly).                             *)
(***************************************************************************)
EXTENDS Integers, Sequences, FiniteSets, TLC

VARIABLES csv_header, csv_rows, chunksize, pc, pos, handle,
          cif, denumire, matches, result,
          caen_col, afaceri_col, counts, sums, pending, table

vars == <<csv_header, csv_rows, chunksize, pc, pos, handle,
          cif, denumire, matches, result,
          caen_col, afaceri_col, counts, sums, pending, table>>

(* ------------------------------ bounds --------------------------------- *)

\* largest number of data rows of a source
MaxRows == 3

\* largest chunk size tried
MaxChunk == 2

(* --------------------------- string literals --------------------------- *)

S_cod_fiscal == <<"c","o","d"," ","f","i","s","c","a","l">>

S_denumire == <<"d","e","n","u","m","i","r","e">>

S_cod_caen == <<"c","o","d"," ","c","a","e","n">>

S_cifra_de_afaceri == <<"c","i","f","r","a"," ","d","e"," ","a","f","a","c","e","r","i">>

S_nan == <<"n","a","n">>

(* ------------------------ Python string methods ------------------------ *)

\* str.lower() on one character
LowerChar(c) ==
  CASE c = "A" -> "a" [] c = "B" -> "b" [] c = "C" -> "c" [] c = "D" -> "d"
    [] c = "E" -> "e" [] c = "F" -> "f" [] c = "N" -> "n" [] c = "O" -> "o"
    [] c = "P" -> "p" [] c = "S" -> "s" [] c = "T" -> "t"
    [] OTHER -> c

\* str.lower()
Lower(s) == [i \in 1..Len(s) |-> LowerChar(s[i])]

RECURSIVE LStrip(_)
LStrip(s) == IF s # <<>> /\ Head(s) = " " THEN LStrip(Tail(s)) ELSE s

RECURSIVE RStrip(_)
RStrip(s) ==
  IF s # <<>> /\ s[Len(s)] = " " THEN RStrip(SubSeq(s, 1, Len(s) - 1)) ELSE s

\* str.strip()
Strip(s) == RStrip(LStrip(s))

\* `a in b` for strings
Contains(a, b) ==
  \E off \in 0..(Len(b) - Len(a)) : \A j \in 1..Len(a) : b[off + j] = a[j]

(* --------------------------- numbers as text --------------------------- *)

IsDigit(c) == c \in {"0","1","2","3","4","5","6","7","8","9"}

DigitVal(c) ==
  CASE c = "0" -> 0 [] c = "1" -> 1 [] c = "2" -> 2 [] c = "3" -> 3
    [] c = "4" -> 4 [] c = "5" -> 5 [] c = "6" -> 6 [] c = "7" -> 7
    [] c = "8" -> 8 [] c = "9" -> 9

DigitChar(d) == <<"0","1","2","3","4","5","6","7","8","9">>[d + 1]

\* the text is an integer literal, surrounding blanks allowed
IsIntText(s) ==
  LET t == Strip(s) IN Len(t) > 0 /\ \A i \in 1..Len(t) : IsDigit(t[i])

RECURSIVE DigitsVal(_)
DigitsVal(t) ==
  IF t = <<>> THEN 0
  ELSE 10 * DigitsVal(SubSeq(t, 1, Len(t) - 1)) + DigitVal(t[Len(t)])

\* value of an integer literal
IntVal(s) == DigitsVal(Strip(s))

RECURSIVE Digits(_)
\* decimal text of a natural number
Digits(n) ==
  IF n < 10 THEN <<DigitChar(n)>>
  ELSE Digits(n \div 10) \o <<DigitChar(n % 10)>>

(* ----------------------- read_csv: typed columns ----------------------- *)

\* an empty field is a missing value
IsNull(cell) == cell = <<>>

NaN == [k |-> "nan", v |-> 0, s |-> <<>>]

\* dtype read_csv gives a column of one chunk: inferred from the cells of
\* that chunk only
InferDtype(cells) ==
  IF \A i \in 1..Len(cells) : IsNull(cells[i]) \/ IsIntText(cells[i])
  THEN IF \A i \in 1..Len(cells) : ~IsNull(cells[i]) THEN "int64" ELSE "float64"
  ELSE "object"

\* value of one cell in a column of the given dtype
ParseCell(dtype, cell) ==
  IF IsNull(cell) THEN NaN
  ELSE IF dtype = "int64" THEN [k |-> "int", v |-> IntVal(cell), s |-> <<>>]
  ELSE IF dtype = "float64" THEN [k |-> "float", v |-> IntVal(cell), s |-> <<>>]
  ELSE [k |-> "str", v |-> 0, s |-> cell]

ParseColumn(cells) ==
  [i \in 1..Len(cells) |-> ParseCell(InferDtype(cells), cells[i])]

\* str(x) / Series.astype(str) of a parsed value
Str(x) ==
  CASE x.k = "int" -> Digits(x.v)
    [] x.k = "float" -> Digits(x.v) \o <<".","0">>
    [] x.k = "nan" -> S_nan
    [] OTHER -> x.s

\* float(x) succeeds
FloatOk(x) == x.k \in {"int", "float"} \/ (x.k = "str" /\ IsIntText(x.s))

\* float(x)
FloatVal(x) == IF x.k = "str" THEN IntVal(x.s) ELSE x.v

(* ------------------------------- chunks -------------------------------- *)

Min(a, b) == IF a < b THEN a ELSE b

\* last row of the chunk that starts at row p, for chunk size cs
ChunkEnd(p, cs) == Min(p + cs - 1, Len(csv_rows))

\* row numbers of the chunk that starts at row p
ChunkRows(p, cs) == p..ChunkEnd(p, cs)

\* position of the first header column equal to name, 0 if there is none
ColIndex(name) ==
  IF \E i \in 1..Len(csv_header) : csv_header[i] = name
  THEN CHOOSE i \in 1..Len(csv_header) :
         csv_header[i] = name /\ \A j \in 1..(i - 1) : csv_header[j] # name
  ELSE 0

\* the cells of column c in the chunk that starts at row p
ColumnCells(p, cs, c) ==
  [i \in 1..Cardinality(ChunkRows(p, cs)) |-> csv_rows[p + i - 1][c]]

\* the row numbers lo..hi that are in S, in file order
RowSeq(S, lo, hi) ==
  SelectSeq([i \in 1..(hi - lo + 1) |-> lo + i - 1], LAMBDA r : r \in S)

RECURSIVE Concat(_)
\* pd.concat of a list of frames (each a sequence of row numbers)
Concat(frames) ==
  IF frames = <<>> THEN <<>> ELSE Head(frames) \o Concat(Tail(frames))

(* --------------------- Series.str.contains(regex) ---------------------- *)

\* The fragments of the model are written with letters, blanks, "." and
\* "(".  As a regular expression such a pattern is a sequence of literals
\* and of "." (any character); with a "(" in it, it has an unterminated
\* group and re.compile raises.
RegexCompiles(pat) == \A j \in 1..Len(pat) : pat[j] # "("

\* re.search(pat, s, re.IGNORECASE) finds a match
RegexSearch(pat, s) ==
  \E off \in 0..(Len(s) - Len(pat)) :
     \A j \in 1..Len(pat) :
        pat[j] = "." \/ LowerChar(pat[j]) = LowerChar(s[off + j])

(* ----------------------------- search_csv ------------------------------ *)

\* chunk[chunk['cod fiscal'].astype(str) == cif.strip()] on the chunk that
\* starts at row p: the row numbers kept
CifFilter(p, cs, c) ==
  LET col == ParseColumn(ColumnCells(p, cs, c))
  IN  {i \in ChunkRows(p, cs) : Str(col[i - p + 1]) = Strip(cif)}

\* chunk[chunk['denumire'].str.contains(denumire.strip(), case=False,
\* na=False)] on the rows `kept` of a chunk, c the column's position
DenumireFilter(c, kept) ==
  {i \in kept : ~IsNull(csv_rows[i][c])
                /\ RegexSearch(Strip(denumire), csv_rows[i][c])}

\* one iteration of the loop body on the chunk that starts at row p:
\* whether it raises, and the row numbers it keeps
SearchChunkResult(p, cs) ==
  LET cifOn == cif # <<>>
      denOn == denumire # <<>>
      cfc == ColIndex(S_cod_fiscal)
      dc == ColIndex(S_denumire)
      keyErr == (cifOn /\ cfc = 0) \/ (denOn /\ dc = 0)
      attrErr == denOn /\ dc # 0 /\ InferDtype(ColumnCells(p, cs, dc)) # "object"
      reErr == denOn /\ ~RegexCompiles(Strip(denumire))
      after1 == IF cifOn THEN CifFilter(p, cs, cfc) ELSE ChunkRows(p, cs)
      after2 == IF denOn THEN DenumireFilter(dc, after1) ELSE after1
  IN  IF keyErr \/ attrErr \/ reErr
      THEN [err |-> TRUE, keep |-> {}]
      ELSE [err |-> FALSE, keep |-> after2]

\* pd.read_csv(url, chunksize=chunksize): the reader is created and holds
\* the source open
Open ==
  /\ pc = "call"
  /\ pc' = "loop"
  /\ handle' = "open"
  /\ UNCHANGED <<csv_header, csv_rows, chunksize, pos, cif, denumire, matches,
                 result, caen_col, afaceri_col, counts, sums, pending, table>>

\* a loop iteration of search_csv that completes
SearchChunk ==
  /\ pc = "loop"
  /\ pos <= Len(csv_rows)
  /\ LET r == SearchChunkResult(pos, chunksize)
         last == ChunkEnd(pos, chunksize)
     IN  /\ ~r.err
         /\ matches' = IF r.keep # {}
                       THEN Append(matches, RowSeq(r.keep, pos, last))
                       ELSE matches
         /\ pos' = last + 1
  /\ UNCHANGED <<csv_header, csv_rows, chunksize, pc, handle, cif, denumire,
                 result, caen_col, afaceri_col, counts, sums, pending, table>>

\* a loop iteration of search_csv that raises (KeyError, AttributeError,
\* re.error): the exception leaves the function; nothing closes the reader
SearchRaise ==
  /\ pc = "loop"
  /\ pos <= Len(csv_rows)
  /\ SearchChunkResult(pos, chunksize).err
  /\ pc' = "error"
  /\ UNCHANGED <<csv_header, csv_rows, chunksize, pos, handle, cif, denumire,
                 matches, result, caen_col, afaceri_col, counts, sums, pending,
                 table>>

\* the reader is exhausted (it closes itself) and search_csv returns
SearchReturn ==
  /\ pc = "loop"
  /\ pos > Len(csv_rows)
  /\ handle' = "closed"
  /\ result' = Concat(matches)
  /\ pc' = "done"
  /\ UNCHANGED <<csv_header, csv_rows, chunksize, pos, cif, denumire, matches,
                 caen_col, afaceri_col, counts, sums, pending, table>>

\* after an exception the reader is only released when the interpreter
\* happens to reclaim it
Collect ==
  /\ pc = "error"
  /\ handle = "open"
  /\ handle' = "closed"
  /\ UNCHANGED <<csv_header, csv_rows, chunksize, pc, pos, cif, denumire,
                 matches, result, caen_col, afaceri_col, counts, sums, pending,
                 table>>

RECURSIVE SearchFrom(_, _)
\* search_csv as a function of the chunk size: the scan from row p on
SearchFrom(p, cs) ==
  IF p > Len(csv_rows) THEN [err |-> FALSE, rows |-> <<>>]
  ELSE LET r == SearchChunkResult(p, cs)
           rest == SearchFrom(ChunkEnd(p, cs) + 1, cs)
       IN  IF r.err \/ rest.err THEN [err |-> TRUE, rows |-> <<>>]
           ELSE [err |-> FALSE,
                 rows |-> RowSeq(r.keep, p, ChunkEnd(p, cs)) \o rest.rows]

(* ------------------------ inputs of search_csv ------------------------- *)

S_Cod_Fiscal == <<"C","o","d"," ","F","i","s","c","a","l">>

S_Denumire == <<"D","e","n","u","m","i","r","e">>

SearchHeaders ==
  { <<S_cod_fiscal, S_denumire>>,
    <<S_Cod_Fiscal, S_denumire>>,
    <<S_cod_fiscal, S_Denumire>> }

\* data rows <<cod fiscal, denumire>>
SearchRowDomain ==
  { << <<"7">>, <<"A","b">> >>,
    << <<" ","7">>, <<"b","a">> >>,
    << <<"x">>, <<"a",".">> >>,
    << <<>>, <<"c","d">> >>,
    << <<"8">>, <<>> >> }

CifDomain == { <<>>, <<"7">>, <<"7"," ">> }

DenumireDomain == { <<>>, <<"a">>, <<"B">>, <<".">>, <<"(">>, <<"a","b"," ">> }

SeqsUpTo(S, n) == UNION { [1..k -> S] : k \in 1..n }

InitSearch ==
  /\ csv_header \in SearchHeaders
  /\ csv_rows \in SeqsUpTo(SearchRowDomain, MaxRows)
  /\ chunksize \in 1..MaxChunk
  /\ cif \in CifDomain
  /\ denumire \in DenumireDomain
  /\ pc = "call"
  /\ pos = 1
  /\ handle = "none"
  /\ matches = <<>>
  /\ result = <<>>
  /\ caen_col = <<>>
  /\ afaceri_col = <<>>
  /\ counts = <<>>
  /\ sums = <<>>
  /\ pending = <<>>
  /\ table = <<>>

NextSearch == Open \/ SearchChunk \/ SearchRaise \/ SearchReturn \/ Collect

SpecSearch == InitSearch /\ [][NextSearch]_vars

(* --------------------------- aggregate_caen ---------------------------- *)

\* next(c for c in chunk.columns if ...): S being the positions of the
\* header columns that satisfy the condition, the first of them, 0 when the
\* generator is exhausted (StopIteration)
FirstColumn(S) ==
  IF S = {} THEN 0 ELSE CHOOSE i \in S : \A j \in S : i <= j

\* caen_real: the header is lower-cased, caen_col is taken as passed
CaenReal ==
  FirstColumn({i \in 1..Len(csv_header) : Lower(csv_header[i]) = caen_col})

\* afaceri_real: the header is lower-cased, afaceri_col is taken as passed
AfaceriReal ==
  FirstColumn({i \in 1..Len(csv_header) :
                 Contains(afaceri_col, Lower(csv_header[i]))})

Resolved == CaenReal # 0 /\ AfaceriReal # 0

\* chunk[[caen_real, afaceri_real]].dropna() on the chunk that starts at
\* row p: the remaining rows, each with its row number and its two values
DropNa(p, cs) ==
  LET ks == ParseColumn(ColumnCells(p, cs, CaenReal))
      xs == ParseColumn(ColumnCells(p, cs, AfaceriReal))
      all == [i \in 1..Len(ks) |-> [row |-> p + i - 1, k |-> ks[i], x |-> xs[i]]]
  IN  SelectSeq(all, LAMBDA r : r.k.k # "nan" /\ r.x.k # "nan")

\* d[k] += x on a defaultdict kept as the sequence of its items in
\* insertion order
DictAdd(d, k, x) ==
  IF \E i \in 1..Len(d) : d[i].key = k
  THEN [i \in 1..Len(d) |->
          IF d[i].key = k THEN [key |-> k, val |-> d[i].val + x] ELSE d[i]]
  ELSE Append(d, [key |-> k, val |-> x])

\* variant: the count is incremented before the value is converted
FoldRow_CountFirst(acc, r) ==
  IF FloatOk(r.x)
  THEN [counts |-> DictAdd(acc.counts, Str(r.k), 1),
        sums |-> DictAdd(acc.sums, Str(r.k), FloatVal(r.x))]
  ELSE [counts |-> DictAdd(acc.counts, Str(r.k), 1), sums |-> acc.sums]

\* variant: a value that cannot be converted counts as 0
FoldRow_ZeroOnError(acc, r) ==
  [counts |-> DictAdd(acc.counts, Str(r.k), 1),
   sums |-> DictAdd(acc.sums, Str(r.k), IF FloatOk(r.x) THEN FloatVal(r.x) ELSE 0)]

\* the body of the row loop: str(row[0]), float(row[1]), then both updates;
\* an exception of float() leaves both dictionaries as they were
FoldRow(acc, r) ==
  IF FloatOk(r.x)
  THEN [counts |-> DictAdd(acc.counts, Str(r.k), 1),
        sums |-> DictAdd(acc.sums, Str(r.k), FloatVal(r.x))]
  ELSE acc

\* variant: leaving the chunk loop instead of going on with the next chunk
AfterSkip_Break(p, cs) == Len(csv_rows) + 1

\* `continue` in the chunk loop: the reader goes on with the next chunk
AfterSkip(p, cs) == ChunkEnd(p, cs) + 1

\* the frame built from the three lists, row by row
Frame ==
  [i \in 1..Len(counts) |->
     [key |-> counts[i].key, count |-> counts[i].val, sum |-> sums[i].val]]

\* variant: sort_values with the default ascending order
SortedFrames_Ascending(f) ==
  { [i \in 1..Len(f) |-> f[q[i]]] : q \in
      { q \in Permutations(1..Len(f)) :
          \A i \in 1..(Len(f) - 1) : f[q[i]].sum <= f[q[i + 1]].sum } }

\* sort_values(by=sum, ascending=False): the orders it may return (the
\* order of equal sums is not fixed)
SortedFrames(f) ==
  { [i \in 1..Len(f) |-> f[q[i]]] : q \in
      { q \in Permutations(1..Len(f)) :
          \A i \in 1..(Len(f) - 1) : f[q[i]].sum >= f[q[i + 1]].sum } }

\* a chunk in which a column is not found: except StopIteration: continue
AggChunkSkip ==
  /\ pc = "loop"
  /\ pending = <<>>
  /\ pos <= Len(csv_rows)
  /\ ~Resolved
  /\ pos' = AfterSkip(pos, chunksize)
  /\ UNCHANGED <<csv_header, csv_rows, chunksize, pc, handle, cif, denumire,
                 matches, result, caen_col, afaceri_col, counts, sums, pending,
                 table>>

\* a chunk in which both columns are found: its rows without missing values
AggChunkRows ==
  /\ pc = "loop"
  /\ pending = <<>>
  /\ pos <= Len(csv_rows)
  /\ Resolved
  /\ pending' = DropNa(pos, chunksize)
  /\ pos' = ChunkEnd(pos, chunksize) + 1
  /\ UNCHANGED <<csv_header, csv_rows, chunksize, pc, handle, cif, denumire,
                 matches, result, caen_col, afaceri_col, counts, sums, table>>

\* a row whose value converts
AggRowAdd ==
  /\ pc = "loop"
  /\ pending # <<>>
  /\ FloatOk(Head(pending).x)
  /\ LET acc == FoldRow([counts |-> counts, sums |-> sums], Head(pending))
     IN  counts' = acc.counts /\ sums' = acc.sums
  /\ pending' = Tail(pending)
  /\ UNCHANGED <<csv_header, csv_rows, chunksize, pc, pos, handle, cif,
                 denumire, matches, result, caen_col, afaceri_col, table>>

\* a row whose value does not convert: except: continue
AggRowSkip ==
  /\ pc = "loop"
  /\ pending # <<>>
  /\ ~FloatOk(Head(pending).x)
  /\ LET acc == FoldRow([counts |-> counts, sums |-> sums], Head(pending))
     IN  counts' = acc.counts /\ sums' = acc.sums
  /\ pending' = Tail(pending)
  /\ UNCHANGED <<csv_header, csv_rows, chunksize, pc, pos, handle, cif,
                 denumire, matches, result, caen_col, afaceri_col, table>>

\* the reader is exhausted (it closes itself); the frame is built and
\* sorted.  Lists of different lengths make the DataFrame constructor raise.
AggReturn ==
  /\ pc = "loop"
  /\ pending = <<>>
  /\ pos > Len(csv_rows)
  /\ handle' = "closed"
  /\ IF Len(counts) = Len(sums)
     THEN pc' = "done" /\ table' \in SortedFrames(Frame)
     ELSE pc' = "error" /\ table' = table
  /\ UNCHANGED <<csv_header, csv_rows, chunksize, pos, cif, denumire, matches,
                 result, caen_col, afaceri_col, counts, sums, pending>>

(* ---------------------- inputs of aggregate_caen ----------------------- *)

S_Cod_CAEN == <<"C","o","d"," ","C","A","E","N">>

S_Cifra_neta == <<"C","i","f","r","a"," ","d","e"," ","a","f","a","c","e","r","i",
                  " ","n","e","t","a">>

S_profit == <<"p","r","o","f","i","t">>

S_afaceri == <<"a","f","a","c","e","r","i">>

S_Afaceri == <<"A","f","a","c","e","r","i">>

AggHeaders ==
  { <<S_cod_caen, S_cifra_de_afaceri>>,
    <<S_Cod_CAEN, S_Cifra_neta>>,
    <<S_cod_caen, S_profit>> }

K1071 == <<"1","0","7","1">>

K6201 == <<"6","2","0","1">>

\* data rows <<cod caen, cifra de afaceri>>
AggRowDomain ==
  { <<K1071, <<"1","0","0">> >>,
    <<K1071, <<"5","0">> >>,
    <<K6201, <<"2","0","0">> >>,
    <<K1071, <<"x">> >>,
    << <<>>, <<"5","0">> >>,
    <<K6201, <<>> >> }

InitAgg ==
  /\ csv_header \in AggHeaders
  /\ csv_rows \in SeqsUpTo(AggRowDomain, MaxRows)
  /\ chunksize \in 1..MaxChunk
  /\ caen_col \in {S_cod_caen, S_Cod_CAEN}
  /\ afaceri_col \in {S_cifra_de_afaceri, S_afaceri, S_Afaceri}
  /\ pc = "call"
  /\ pos = 1
  /\ handle = "none"
  /\ cif = <<>>
  /\ denumire = <<>>
  /\ matches = <<>>
  /\ result = <<>>
  /\ counts = <<>>
  /\ sums = <<>>
  /\ pending = <<>>
  /\ table = <<>>

NextAgg ==
  Open \/ AggChunkSkip \/ AggChunkRows \/ AggRowAdd \/ AggRowSkip \/ AggReturn

SpecAgg == InitAgg /\ [][NextAgg]_vars

(* ------------------------------ properties ----------------------------- *)

AllRows == 1..Len(csv_rows)

\* C1: search_csv with only the exact criterion returns exactly the rows
\* whose 'cod fiscal' text, trimmed, equals the criterion (trimmed as well,
\* as the code trims it), and the same rows for every chunk size.
C1_ExactMatch ==
  (pc = "done" /\ cif # <<>> /\ denumire = <<>>) =>
     /\ result = RowSeq({i \in AllRows :
                           Strip(csv_rows[i][ColIndex(S_cod_fiscal)]) = Strip(cif)},
                        1, Len(csv_rows))
     /\ \A cs \in 1..MaxChunk : SearchFrom(1, cs).rows = result

\* a requested criterion whose column is not in the header
MissingColumn ==
  \/ cif # <<>> /\ ColIndex(S_cod_fiscal) = 0
  \/ denumire # <<>> /\ ColIndex(S_denumire) = 0

\* C3: a chunk whose header lacks the column of a requested criterion is
\* skipped; the scan does not raise.
C3_MissingColumnSkipped == MissingColumn => pc # "error"

\* C4: with a substring criterion (alone, its column present) the filter
\* never raises, and the rows returned are exactly those whose 'denumire'
\* is not null and contains the trimmed fragment literally, ignoring case.
C4_LiteralSubstring ==
  (denumire # <<>> /\ cif = <<>> /\ ColIndex(S_denumire) # 0) =>
     /\ pc # "error"
     /\ pc = "done" =>
          result = RowSeq({i \in AllRows :
                             LET cell == csv_rows[i][ColIndex(S_denumire)]
                             IN  /\ ~IsNull(cell)
                                 /\ Contains(Lower(Strip(denumire)), Lower(cell))},
                          1, Len(csv_rows))

\* C8: a scan that has returned or has terminated with an error raised in
\* the chunk loop has released its handle.
C8_HandleReleased == pc \in {"done", "error"} => handle = "closed"

\* rows that aggregate_caen has to count: both columns found, grouping value
\* not null, value not null and convertible
ValidRows ==
  IF Resolved
  THEN {i \in AllRows : /\ ~IsNull(csv_rows[i][CaenReal])
                        /\ ~IsNull(csv_rows[i][AfaceriReal])
                        /\ IsIntText(csv_rows[i][AfaceriReal])}
  ELSE {}

RECURSIVE SumValues(_)
\* arithmetic sum of the values of the rows S
SumValues(S) ==
  IF S = {} THEN 0
  ELSE LET i == CHOOSE j \in S : TRUE
       IN  IntVal(csv_rows[i][AfaceriReal]) + SumValues(S \ {i})

RECURSIVE SumCounts(_)
SumCounts(t) == IF t = <<>> THEN 0 ELSE Head(t).count + SumCounts(Tail(t))

\* C2: the counts of the returned table add up to the number of valid rows,
\* and the sum of each returned key is the sum of the values of the valid
\* rows whose grouping value is that key, however the rows are chunked.
C2_ExactlyOnce ==
  pc = "done" =>
     /\ SumCounts(table) = Cardinality(ValidRows)
     /\ \A j \in 1..Len(table) :
          table[j].sum =
            SumValues({i \in ValidRows : csv_rows[i][CaenReal] = table[j].key})

\* C9: the grouping column is the first header column equal to caen_col and
\* the value column the first one containing afaceri_col, case ignored on
\* both sides.
C9_CaseInsensitive ==
  pc = "loop" =>
     /\ CaenReal = FirstColumn({i \in 1..Len(csv_header) :
                                 Lower(csv_header[i]) = Lower(caen_col)})
     /\ AfaceriReal = FirstColumn({i \in 1..Len(csv_header) :
                                    Contains(Lower(afaceri_col), Lower(csv_header[i]))})

\* C5: a chunk in which the grouping or the value column is not found
\* changes no count and no sum, raises nothing, and the scan goes on with
\* the chunk that follows it; such a scan ends with an empty table.
C5_UnresolvedChunkSkipped ==
  /\ [][(pc = "loop" /\ pending = <<>> /\ pos <= Len(csv_rows) /\ ~Resolved) =>
          /\ counts' = counts
          /\ sums' = sums
          /\ pc' = "loop"
          /\ pos' = ChunkEnd(pos, chunksize) + 1]_vars
  /\ [](~Resolved => pc # "error" /\ counts = <<>> /\ sums = <<>> /\ table = <<>>)

C5_Witness ==
  /\ pc = "done"
  /\ ~Resolved
  /\ Len(csv_rows) > chunksize
  /\ table = <<>>

\* C6: a row whose value does not convert to a float changes no count and no
\* sum, creates no key and raises nothing; the scan goes on with the next
\* row.
C6_BadValueSkipped ==
  /\ [][(pc = "loop" /\ pending # <<>> /\ ~FloatOk(Head(pending).x)) =>
          /\ counts' = counts
          /\ sums' = sums
          /\ pc' = "loop"
          /\ pending' = Tail(pending)]_vars
  /\ [](Resolved => pc # "error")

C6_Witness ==
  /\ pc = "done"
  /\ csv_rows = << <<K1071, <<"x">> >>, <<K6201, <<"2","0","0">> >> >>
  /\ table = << [key |-> K6201, count |-> 1, sum |-> 200] >>

Scenario ==
  << <<K1071, <<"1","0","0">> >>, <<K1071, <<"5","0">> >>,
     <<K6201, <<"2","0","0">> >> >>

C10_SameKeys ==
  /\ Len(counts) = Len(sums)
  /\ \A i \in 1..Len(counts) : counts[i].key = sums[i].key /\ counts[i].val >= 1
  /\ pc = "done" =>
       \A j \in 1..Len(table) :
          \E i \in 1..Len(counts) :
             /\ table[j].key = counts[i].key
             /\ table[j].count = counts[i].val
             /\ \E m \in 1..Len(sums) :
                   sums[m].key = table[j].key /\ sums[m].val = table[j].sum

C10_Witness ==
  /\ pc = "loop"
  /\ Len(counts) = 2
  /\ pending # <<>>
  /\ ~FloatOk(Head(pending).x)

====
